---- MODULE Spec2Model ----
(***************************************************************************)
(* The Exa client of packages/exa-js/lib/index.ts: construction, the five *)
(* public operations, and the private request routine with its two await  *)
(* points (fetch, response.json()).                                        *)
(*                                                                         *)
(* JavaScript values the client only copies or tests for truthiness are    *)
(* atoms (strings); objects are functions from keys to values, so that     *)
(* object spread, rest destructuring and JSON.stringify are computed key   *)
(* by key.                                                                 *)
(***************************************************************************)
EXTENDS Integers, Sequences, FiniteSets, TLC

VARIABLES
    env,        \* process.env.EXASEARCH_API_KEY
    client,     \* the Exa instance: its baseURL and headers, once constructed
    ctorArgs,   \* the arguments new Exa(...) was called with
    calls,      \* per call: operation, arguments, await point, response, outcome
    network     \* per call: the fetch requests it has issued

vars == <<env, client, ctorArgs, calls, network>>

----------------------------------------------------------------------------
(* Bounds of the model *)

\* concurrent calls on the one client instance (ConcSpec)
MaxCalls == 2
\* option fields a caller passes in one options object (BodySpec)
MaxOptKeys == 2
\* identifiers passed to getContents in one call
MaxIds == 2

----------------------------------------------------------------------------
(* JavaScript values *)

Undefined == "<undefined>"

\* an options argument: omitted (undefined) or an object
NoOptions == [given |-> FALSE, fields |-> <<>>]
Obj(f) == [given |-> TRUE, fields |-> f]

EmptyObject == <<>>

\* !v is false: the falsy atoms
Truthy(v) == v \notin {Undefined, "", "false", "0", "null"}

\* a || b
Or(a, b) == IF Truthy(a) THEN a ELSE b

\* o[k] of an object
Get(o, k) == IF k \in DOMAIN o THEN o[k] ELSE Undefined

\* options || {}
OrEmpty(options) == IF options.given THEN options.fields ELSE EmptyObject

\* { ...a, ...b }: own keys of both, b's value where both have the key
Spread(a, b) ==
    [k \in (DOMAIN a) \cup (DOMAIN b) |-> IF k \in DOMAIN b THEN b[k] ELSE a[k]]

\* { ...options } of an options argument: spreading undefined adds nothing
SpreadOptions(a, options) == Spread(a, OrEmpty(options))

\* variant: the destructuring takes nothing out, rest is the whole object
Rest_Whole(o) == o

\* const { text, highlights, ...rest } = o
Rest(o) == [k \in (DOMAIN o) \ {"text", "highlights"} |-> o[k]]

\* `${v}` of undefined or a string
TemplateString(v) == IF v = Undefined THEN "undefined" ELSE v

\* JSON.stringify of the objects the client sends: a key whose value is
\* undefined is left out, at the top level and inside contents
StringifyFlat(o) == [k \in {j \in DOMAIN o : o[j] # Undefined} |-> o[k]]

JsonStringify(body) ==
    LET kept == {k \in DOMAIN body :
                    IF k \in {"contents", "ids"} THEN TRUE ELSE body[k] # Undefined}
    IN [k \in kept |-> IF k = "contents" THEN StringifyFlat(body[k]) ELSE body[k]]

----------------------------------------------------------------------------
(* exa.constants: the module index.ts imports *)

constants ==
    [BASE_URL |-> "<BASE_URL>",
     CONTENT_TYPE |-> "<CONTENT_TYPE>",
     USER_AGENT |-> "<USER_AGENT>",
     ENDPOINTS |-> [SEARCH |-> "<ENDPOINTS.SEARCH>",
                    SIMILAR_SEARCH |-> "<ENDPOINTS.SIMILAR_SEARCH>",
                    CONTENTS |-> "<ENDPOINTS.CONTENTS>"]]

----------------------------------------------------------------------------
(* The option types *)

BaseSearchOptions ==
    {"numResults", "includeDomains", "excludeDomains", "startCrawlDate",
     "endCrawlDate", "startPublishedDate", "endPublishedDate", "category"}

RegularSearchOptions == BaseSearchOptions \cup {"useAutoprompt", "type"}

FindSimilarOptions == BaseSearchOptions \cup {"excludeSourceDomain"}

ContentsOptions == {"text", "highlights"}

\* the values a caller can give a field of each type; an optional field may
\* also be passed explicitly as undefined
FieldValues(k) ==
    CASE k = "numResults" -> {"5"}
      [] k \in {"includeDomains", "excludeDomains"} -> {"[nytimes.com]"}
      [] k \in {"startCrawlDate", "endCrawlDate",
                "startPublishedDate", "endPublishedDate"} -> {"2023-06-12"}
      [] k = "category" -> {"company"}
      [] k \in {"useAutoprompt", "excludeSourceDomain"} -> {"true", "false"}
      [] k = "type" -> {"keyword", "neural"}
      [] k = "text" -> {"true", "{maxCharacters:1000}"}
      [] k = "highlights" -> {"true", "{numSentences:1}"}

AllFieldValues ==
    UNION {FieldValues(k) : k \in RegularSearchOptions \cup FindSimilarOptions
                                   \cup ContentsOptions} \cup {Undefined}

\* the options objects of a type with at most n fields
OptionsOf(keys, n) ==
    {NoOptions} \cup
    {Obj(f) : f \in UNION {
        {g \in [S -> AllFieldValues] :
            \A k \in S : g[k] \in FieldValues(k) \cup {Undefined}} :
        S \in {T \in SUBSET keys : Cardinality(T) <= n}}}

----------------------------------------------------------------------------
(* First arguments: a query or url string, or the ids of getContents       *)
(* (string | string[] | SearchResult[]); shape is what typeof tells apart  *)

Identifiers == {"id1", "id2"}

SearchResult(id) == [title |-> "T", url |-> "https://example.com/" \o id, id |-> id]

Str(s) == [shape |-> "string", s |-> s, strings |-> <<>>, results |-> <<>>]
Strings(q) == [shape |-> "string[]", s |-> "", strings |-> q, results |-> <<>>]
Results(q) == [shape |-> "SearchResult[]", s |-> "", strings |-> <<>>, results |-> q]

SeqsUpTo(S, n) == UNION {[1..m -> S] : m \in 0..n}

IdsInputs(n) ==
    {Str(s) : s \in Identifiers \cup {""}}
    \cup {Strings(q) : q \in SeqsUpTo(Identifiers, n)}
    \cup {Results(q) : q \in SeqsUpTo({SearchResult(i) : i \in Identifiers}, n)}

\* ids.length === 0
LengthIsZero(ids) ==
    CASE ids.shape = "string" -> ids.s = ""
      [] ids.shape = "string[]" -> Len(ids.strings) = 0
      [] ids.shape = "SearchResult[]" -> Len(ids.results) = 0

----------------------------------------------------------------------------
(* The client: constructor *)

Calls == 1..MaxCalls

NoClient == [state |-> "unconstructed", baseURL |-> "", headers |-> <<>>, error |-> ""]
NoArgs == [apiKey |-> Undefined, baseURL |-> Undefined]

\* variant: the user-agent header is left out
Headers_NoUserAgent(currentApiKey) ==
    ("x-api-key" :> currentApiKey) @@ ("Content-Type" :> constants.CONTENT_TYPE)

\* new Headers({...}) of the constructor
Headers(currentApiKey) ==
    ("x-api-key" :> currentApiKey)
    @@ ("Content-Type" :> constants.CONTENT_TYPE)
    @@ ("User-Agent" :> constants.USER_AGENT)

\* the default parameter baseURL = constants.BASE_URL
DefaultBaseURL(baseURL) == IF baseURL = Undefined THEN constants.BASE_URL ELSE baseURL

\* variant: the environment variable is preferred to the argument
CurrentApiKey_EnvFirst(apiKey) == Or(env, apiKey)

\* apiKey || process.env.EXASEARCH_API_KEY
CurrentApiKey(apiKey) == Or(apiKey, env)

\* new Exa(apiKey, baseURL): the object exists only when the constructor returns
Constructor(apiKey, baseURL) ==
    /\ client.state = "unconstructed"
    /\ ctorArgs' = [apiKey |-> apiKey, baseURL |-> baseURL]
    /\ client' =
          IF ~Truthy(CurrentApiKey(apiKey))
          THEN [state |-> "failed", baseURL |-> "", headers |-> <<>>,
                error |-> "API key must be provided as an argument or as an environment variable (EXASEARCH_API_KEY)"]
          ELSE [state |-> "ready",
                baseURL |-> DefaultBaseURL(baseURL),
                headers |-> Headers(CurrentApiKey(apiKey)),
                error |-> ""]
    /\ UNCHANGED <<env, calls, network>>

----------------------------------------------------------------------------
(* Calls: the promise of one invocation of a public operation *)

NoResponse == [status |-> 0, text |-> ""]
Pending == [kind |-> "pending", value |-> <<>>, name |-> "", message |-> <<>>]
Value(v) == [kind |-> "value", value |-> v, name |-> "", message |-> <<>>]
Error(name, message) == [kind |-> "error", value |-> <<>>, name |-> name, message |-> message]

Idle ==
    [pc |-> "idle", op |-> "", arg |-> Str(""), options |-> NoOptions,
     response |-> NoResponse, result |-> Pending]

CanCall(c) == client.state = "ready" /\ calls[c].pc = "idle"

\* request(), up to its first await: one fetch with the stored base URL and
\* headers and the serialised body (every caller passes an object, so the
\* body is always serialised)
request(c, op, arg, options, endpoint, method, body) ==
    /\ network' = [network EXCEPT ![c] =
          Append(@, [url |-> client.baseURL \o endpoint,
                     method |-> method,
                     headers |-> client.headers,
                     body |-> JsonStringify(body)])]
    /\ calls' = [calls EXCEPT ![c] =
          [pc |-> "fetch", op |-> op, arg |-> arg, options |-> options,
           response |-> NoResponse, result |-> Pending]]
    /\ UNCHANGED <<env, client, ctorArgs>>

\* variant: a default result count is filled in
searchBody_DefaultNumResults(query, options) ==
    SpreadOptions([query |-> query, numResults |-> "10"], options)

\* { query, ...options }
searchBody(query, options) == SpreadOptions([query |-> query], options)

\* { url, ...options }
findSimilarBody(url, options) == SpreadOptions([url |-> url], options)

\* variant: no default when neither is asked for
contents_NoDefault(text, highlights) ==
    Spread(IF Truthy(text) THEN [text |-> text] ELSE EmptyObject,
           IF Truthy(highlights) THEN [highlights |-> highlights] ELSE EmptyObject)

\* the contents value of the two AndContents operations
contents(text, highlights) ==
    IF ~Truthy(text) /\ ~Truthy(highlights)
    THEN [text |-> "true"]
    ELSE Spread(IF Truthy(text) THEN [text |-> text] ELSE EmptyObject,
                IF Truthy(highlights) THEN [highlights |-> highlights] ELSE EmptyObject)

\* { query, contents: ..., ...rest }
searchAndContentsBody(query, options) ==
    LET o == OrEmpty(options)
    IN Spread([query |-> query,
               contents |-> contents(Get(o, "text"), Get(o, "highlights"))],
              Rest(o))

\* { url, contents: ..., ...rest }
findSimilarAndContentsBody(url, options) ==
    LET o == OrEmpty(options)
    IN Spread([url |-> url,
               contents |-> contents(Get(o, "text"), Get(o, "highlights"))],
              Rest(o))

\* variant: a single string is not wrapped into a list
requestIds_NoWrap(ids) ==
    IF ids.shape = "string[]" THEN ids.strings
    ELSE [i \in DOMAIN ids.results |-> ids.results[i].id]

\* the three shapes of ids, told apart by typeof ids and typeof ids[0]
requestIds(ids) ==
    IF ids.shape = "string" THEN <<ids.s>>
    ELSE IF ids.shape = "string[]" THEN ids.strings
    ELSE [i \in DOMAIN ids.results |-> ids.results[i].id]

\* { ids: requestIds, ...options }
getContentsBody(ids, options) == SpreadOptions([ids |-> requestIds(ids)], options)

search(c, query, options) ==
    /\ CanCall(c)
    /\ request(c, "search", Str(query), options,
               constants.ENDPOINTS.SEARCH, "POST", searchBody(query, options))

searchAndContents(c, query, options) ==
    /\ CanCall(c)
    /\ request(c, "searchAndContents", Str(query), options,
               constants.ENDPOINTS.SEARCH, "POST", searchAndContentsBody(query, options))

\* variant: posted to the search endpoint
findSimilar_SearchEndpoint(c, url, options) ==
    /\ CanCall(c)
    /\ request(c, "findSimilar", Str(url), options,
               constants.ENDPOINTS.SEARCH, "POST", findSimilarBody(url, options))

findSimilar(c, url, options) ==
    /\ CanCall(c)
    /\ request(c, "findSimilar", Str(url), options,
               constants.ENDPOINTS.SIMILAR_SEARCH, "POST", findSimilarBody(url, options))

findSimilarAndContents(c, url, options) ==
    /\ CanCall(c)
    /\ request(c, "findSimilarAndContents", Str(url), options,
               constants.ENDPOINTS.SIMILAR_SEARCH, "POST",
               findSimilarAndContentsBody(url, options))

\* variant: no length check
MustThrow_Never(ids) == FALSE

\* the length check of getContents
MustThrow(ids) == LengthIsZero(ids)

getContents(c, ids, options) ==
    /\ CanCall(c)
    /\ IF MustThrow(ids)
       THEN /\ calls' = [calls EXCEPT ![c] =
                  [pc |-> "rejected", op |-> "getContents", arg |-> ids,
                   options |-> options, response |-> NoResponse,
                   result |-> Error("Error", <<"Must provide at least one ID">>)]]
            /\ UNCHANGED <<env, client, ctorArgs, network>>
       ELSE request(c, "getContents", ids, options,
                    constants.ENDPOINTS.CONTENTS, "POST", getContentsBody(ids, options))

----------------------------------------------------------------------------
(* The HTTP exchange: what fetch and response.json() settle with *)

Statuses == {200, 401, 500}

\* response.ok
Ok(status) == status \in 200..299

ResultsText == "{\"results\":[{\"title\":\"T\",\"url\":\"u\",\"id\":\"1\"}]}"
AutopromptText == "{\"results\":[],\"autopromptString\":\"a\"}"
ErrorText == "{\"error\":\"bad key\"}"
EmptyObjectText == "{}"
HtmlText == "<html>502 Bad Gateway</html>"

ResponseTexts == {ResultsText, AutopromptText, ErrorText, EmptyObjectText, HtmlText}

\* JSON.parse of a response text: the parsed object, or no value when the
\* text is not JSON (response.json() then rejects with a SyntaxError)
IsJson(text) == text # HtmlText

JsonParse(text) ==
    CASE text = ResultsText -> [results |-> <<[title |-> "T", url |-> "u", id |-> "1"]>>]
      [] text = AutopromptText -> [results |-> <<>>, autopromptString |-> "a"]
      [] text = ErrorText -> [error |-> "bad key"]
      [] text = EmptyObjectText -> EmptyObject

\* `Request failed with status ${response.status}. ${message}`: the template's
\* literal parts and substitutions, in order
RequestFailed(status, message) ==
    <<"Request failed with status ", ToString(status), ". ", TemplateString(message)>>

\* what the continuation after fetch awaits next: response.json() for the
\* error message when !response.ok, response.json() for the result otherwise
AfterFetch(status) == IF ~Ok(status) THEN "json_error" ELSE "json_result"

\* fetch resolves with a response
FetchResolves(c, status, text) ==
    /\ calls[c].pc = "fetch"
    /\ calls' = [calls EXCEPT ![c].response = [status |-> status, text |-> text],
                              ![c].pc = AfterFetch(status)]
    /\ UNCHANGED <<env, client, ctorArgs, network>>

\* fetch rejects (transport failure): the rejection propagates unmodified
FetchRejects(c) ==
    /\ calls[c].pc = "fetch"
    /\ calls' = [calls EXCEPT ![c].pc = "rejected",
                              ![c].result = Error("FetchError", <<"transport failure">>)]
    /\ UNCHANGED <<env, client, ctorArgs, network>>

\* what request() settles with when !response.ok
ErrorResult(response) ==
    IF ~IsJson(response.text)
    THEN Error("SyntaxError", <<"invalid json response body">>)
    ELSE Error("Error", RequestFailed(response.status,
                                      Get(JsonParse(response.text), "error")))

\* variant: only the results field of the body is returned
OkResult_ResultsOnly(response) ==
    IF ~IsJson(response.text)
    THEN Error("SyntaxError", <<"invalid json response body">>)
    ELSE Value([results |-> Get(JsonParse(response.text), "results")])

\* what request() settles with when response.ok
OkResult(response) ==
    IF ~IsJson(response.text)
    THEN Error("SyntaxError", <<"invalid json response body">>)
    ELSE Value(JsonParse(response.text))

Settle(c, result) ==
    /\ calls' = [calls EXCEPT ![c].pc = IF result.kind = "value" THEN "resolved"
                                                                  ELSE "rejected",
                              ![c].result = result]
    /\ UNCHANGED <<env, client, ctorArgs, network>>

\* const message = (await response.json()).error; throw new Error(...)
ThrowRequestFailed(c) ==
    /\ calls[c].pc = "json_error"
    /\ Settle(c, ErrorResult(calls[c].response))

\* return await response.json()
ReturnJson(c) ==
    /\ calls[c].pc = "json_result"
    /\ Settle(c, OkResult(calls[c].response))

----------------------------------------------------------------------------
(* Inputs *)

ApiKeys == {Undefined, "", "key-arg"}
EnvValues == {Undefined, "", "key-env"}
BaseURLs == {Undefined, "http://localhost:8080"}
Queries == {"q1", "q2"}
Urls == {"https://example.com"}

Init ==
    /\ env \in EnvValues
    /\ client = NoClient
    /\ ctorArgs = NoArgs
    /\ calls = [c \in Calls |-> Idle]
    /\ network = [c \in Calls |-> <<>>]

(* Spec: one call at a time on a client, every response *)

RegularInputs == OptionsOf({"numResults", "type"}, 1)
RegularContentsInputs == OptionsOf({"numResults", "text", "highlights"}, 1)
SimilarInputs == OptionsOf({"excludeSourceDomain"}, 1)
SimilarContentsInputs == OptionsOf({"category", "text", "highlights"}, 1)
ContentsInputs == OptionsOf(ContentsOptions, 1)
Ids == IdsInputs(MaxIds)

Next ==
    \/ \E apiKey \in ApiKeys, baseURL \in BaseURLs : Constructor(apiKey, baseURL)
    \/ CanCall(1) /\ \E query \in Queries, options \in RegularInputs :
          search(1, query, options)
    \/ CanCall(1) /\ \E query \in Queries, options \in RegularContentsInputs :
          searchAndContents(1, query, options)
    \/ CanCall(1) /\ \E url \in Urls, options \in SimilarInputs :
          findSimilar(1, url, options)
    \/ CanCall(1) /\ \E url \in Urls, options \in SimilarContentsInputs :
          findSimilarAndContents(1, url, options)
    \/ CanCall(1) /\ \E ids \in Ids, options \in ContentsInputs :
          getContents(1, ids, options)
    \/ \E status \in Statuses, text \in ResponseTexts : FetchResolves(1, status, text)
    \/ FetchRejects(1)
    \/ ThrowRequestFailed(1)
    \/ ReturnJson(1)

Spec == Init /\ [][Next]_vars

(* BodySpec: the request bodies of every operation over the option types *)

RegularOptionsInputs == OptionsOf(RegularSearchOptions, MaxOptKeys)
RegularAndContentsInputs == OptionsOf(RegularSearchOptions \cup ContentsOptions, MaxOptKeys)
FindSimilarOptionsInputs == OptionsOf(FindSimilarOptions, MaxOptKeys)
FindSimilarAndContentsInputs == OptionsOf(FindSimilarOptions \cup ContentsOptions, MaxOptKeys)
ContentsOptionsInputs == OptionsOf(ContentsOptions, MaxOptKeys)

BodyNext ==
    \/ \E baseURL \in BaseURLs : Constructor("key-arg", baseURL)
    \/ CanCall(1) /\ \E options \in RegularOptionsInputs : search(1, "q1", options)
    \/ CanCall(1) /\ \E options \in RegularAndContentsInputs :
          searchAndContents(1, "q1", options)
    \/ CanCall(1) /\ \E url \in Urls, options \in FindSimilarOptionsInputs :
          findSimilar(1, url, options)
    \/ CanCall(1) /\ \E url \in Urls, options \in FindSimilarAndContentsInputs :
          findSimilarAndContents(1, url, options)
    \/ CanCall(1) /\ \E ids \in Ids, options \in ContentsOptionsInputs :
          getContents(1, ids, options)

BodySpec == Init /\ [][BodyNext]_vars

(* ConcSpec: calls running concurrently against one client instance *)

ConcInit == Init /\ env = "key-env"

ConcNext ==
    \/ \E apiKey \in {Undefined, "key-arg"}, baseURL \in BaseURLs :
          Constructor(apiKey, baseURL)
    \/ \E c \in Calls :
          \/ \E query \in Queries : search(c, query, NoOptions)
          \/ searchAndContents(c, "q1", Obj([highlights |-> "true"]))
          \/ findSimilar(c, "https://example.com", Obj([excludeSourceDomain |-> "true"]))
          \/ findSimilarAndContents(c, "https://example.com", NoOptions)
          \/ \E ids \in {Str("id1"), Strings(<<>>)} : getContents(c, ids, NoOptions)
          \/ FetchResolves(c, 200, ResultsText)
          \/ FetchResolves(c, 401, ErrorText)
          \/ FetchRejects(c)
          \/ ThrowRequestFailed(c)
          \/ ReturnJson(c)

ConcSpec == ConcInit /\ [][ConcNext]_vars

----------------------------------------------------------------------------
(* Vocabulary of the properties *)

\* the call has been made (its promise exists)
Called(c) == calls[c].pc # "idle"

\* the call has issued its HTTP request
Sent(c) == Len(network[c]) >= 1

\* the body of the request the call issued
Body(c) == network[c][1].body

\* the option fields the caller supplied: the keys given a value
Supplied(c) ==
    {k \in DOMAIN OrEmpty(calls[c].options) : calls[c].options.fields[k] # Undefined}

Option(c, k) == calls[c].options.fields[k]

AndContents == {"searchAndContents", "findSimilarAndContents"}

\* the call's first argument fails input validation: no identifier at all
EmptyInput(c) ==
    /\ calls[c].op = "getContents"
    /\ calls[c].arg.s = ""
    /\ calls[c].arg.strings = <<>>
    /\ calls[c].arg.results = <<>>

\* the flat list of identifiers of an ids argument, in input order
FlatIds(ids) ==
    CASE ids.shape = "string" -> <<ids.s>>
      [] ids.shape = "string[]" -> ids.strings
      [] ids.shape = "SearchResult[]" ->
            [i \in 1..Len(ids.results) |-> ids.results[i].id]

\* a credential: a non-empty string
Provides(v) == v \notin {Undefined, ""}

Contains(message, part) == \E i \in DOMAIN message : message[i] = part

Settled(c) == calls[c].pc \in {"resolved", "rejected"}

Responded(c) == calls[c].response # NoResponse

----------------------------------------------------------------------------
(* Properties *)

\* C1: searchAndContents and findSimilarAndContents, for every options value
\* (none at all included): when neither text nor highlights is supplied, the
\* request is sent with contents equal to {text: true} and with no text and no
\* highlights key at the top level of the body.
C1_DefaultContents ==
    \A c \in Calls :
        (/\ Called(c)
         /\ calls[c].op \in AndContents
         /\ "text" \notin Supplied(c)
         /\ "highlights" \notin Supplied(c))
        => /\ Sent(c)
           /\ "contents" \in DOMAIN Body(c)
           /\ Body(c)["contents"] = [text |-> "true"]
           /\ "text" \notin DOMAIN Body(c)
           /\ "highlights" \notin DOMAIN Body(c)

C1_Witness ==
    \E c \in Calls :
        /\ calls[c].op = "findSimilarAndContents"
        /\ Sent(c)
        /\ calls[c].options.given
        /\ Supplied(c) # {}
        /\ Supplied(c) \cap ContentsOptions = {}

\* C2: searchAndContents and findSimilarAndContents: when the options carry
\* text and/or highlights, contents holds exactly those keys with their values
\* unchanged, neither key is at the top level of the body, and every other
\* supplied option field is at the top level with its value unchanged.
C2_PromotedContents ==
    \A c \in Calls :
        (/\ Called(c)
         /\ calls[c].op \in AndContents
         /\ Supplied(c) \cap ContentsOptions # {})
        => /\ Sent(c)
           /\ "contents" \in DOMAIN Body(c)
           /\ Body(c)["contents"] =
                 [k \in Supplied(c) \cap ContentsOptions |-> Option(c, k)]
           /\ "text" \notin DOMAIN Body(c)
           /\ "highlights" \notin DOMAIN Body(c)
           /\ \A k \in Supplied(c) \ ContentsOptions :
                 k \in DOMAIN Body(c) /\ Body(c)[k] = Option(c, k)

C2_Witness ==
    \E c \in Calls :
        /\ calls[c].op = "searchAndContents"
        /\ Sent(c)
        /\ "text" \in Supplied(c)
        /\ Option(c, "text") = "{maxCharacters:1000}"
        /\ Supplied(c) \ ContentsOptions # {}

\* C3: getContents accepts a single identifier string, a non-empty sequence
\* of identifier strings and a non-empty sequence of search-result objects
\* (an identifier is a non-empty string), and the ids
\* field of the body it sends is the flat list of identifiers in input order:
\* [s], the sequence itself, the sequence of the objects' id fields.
C3_FlatIds ==
    \A c \in Calls :
        (Called(c) /\ calls[c].op = "getContents" /\ ~EmptyInput(c))
        => /\ Sent(c)
           /\ "ids" \in DOMAIN Body(c)
           /\ Body(c)["ids"] = FlatIds(calls[c].arg)

C3_Witness ==
    \E c \in Calls :
        /\ calls[c].op = "getContents"
        /\ Sent(c)
        /\ calls[c].arg.shape = "SearchResult[]"
        /\ Len(calls[c].arg.results) = 2
        /\ Body(c)["ids"] = <<"id2", "id1">>

\* C7: search, findSimilar and getContents, for every options value: the
\* fields of the body are exactly the mandatory key (query, url or ids) and the
\* supplied option fields; the mandatory key holds the value derived from the
\* first argument, and every supplied option field keeps its value.
MandatoryKey(op) ==
    CASE op = "search" -> "query"
      [] op = "findSimilar" -> "url"
      [] op = "getContents" -> "ids"

C7_BodyIsUnion ==
    \A c \in Calls :
        (Sent(c) /\ calls[c].op \in {"search", "findSimilar", "getContents"})
        => /\ DOMAIN Body(c) = {MandatoryKey(calls[c].op)} \cup Supplied(c)
           /\ IF calls[c].op = "getContents"
              THEN Body(c)["ids"] = FlatIds(calls[c].arg)
              ELSE Body(c)[MandatoryKey(calls[c].op)] = calls[c].arg.s
           /\ \A k \in Supplied(c) : Body(c)[k] = Option(c, k)

C7_Witness ==
    \E c \in Calls :
        /\ calls[c].op = "search"
        /\ Sent(c)
        /\ Cardinality(Supplied(c)) = 1
        /\ \E k \in DOMAIN calls[c].options.fields : Option(c, k) = Undefined

\* C4: every public operation: whenever the response has a non-success
\* status the call fails with a request error whose message contains the
\* status code, and the server's message when the body has an error field.
C4_RequestError ==
    \A c \in Calls :
        (Settled(c) /\ Responded(c) /\ ~Ok(calls[c].response.status))
        => /\ calls[c].pc = "rejected"
           /\ calls[c].result.name = "Error"
           /\ Contains(calls[c].result.message, ToString(calls[c].response.status))
           /\ (IsJson(calls[c].response.text)
               /\ "error" \in DOMAIN JsonParse(calls[c].response.text))
              => Contains(calls[c].result.message,
                          JsonParse(calls[c].response.text)["error"])

\* C5: getContents with an empty identifier collection, with any options,
\* fails with the input error and issues no HTTP request.
C5_EmptyIdsRejected ==
    \A c \in Calls :
        (/\ Called(c)
         /\ calls[c].op = "getContents"
         /\ calls[c].arg.shape \in {"string[]", "SearchResult[]"}
         /\ EmptyInput(c))
        => /\ calls[c].pc = "rejected"
           /\ calls[c].result = Error("Error", <<"Must provide at least one ID">>)
           /\ network[c] = <<>>

C5_Witness ==
    \E c \in Calls :
        /\ calls[c].op = "getContents"
        /\ calls[c].arg.shape = "SearchResult[]"
        /\ EmptyInput(c)
        /\ calls[c].options.given
        /\ calls[c].pc = "rejected"

\* C6: construction fails with the configuration error exactly when neither
\* the API-key argument nor the environment variable provides a credential (a
\* non-empty string); the argument's credential is the one used when it gives
\* one, the environment variable's otherwise; construction issues no request.
C6_Credential ==
    /\ client.state # "unconstructed"
       => /\ client.state = "failed"
             <=> (~Provides(ctorArgs.apiKey) /\ ~Provides(env))
          /\ client.state = "failed"
             => client.error = "API key must be provided as an argument or as an environment variable (EXASEARCH_API_KEY)"
          /\ client.state = "ready"
             => client.headers["x-api-key"] =
                   IF Provides(ctorArgs.apiKey) THEN ctorArgs.apiKey ELSE env
    /\ (\A c \in Calls : ~Called(c)) => \A c \in Calls : network[c] = <<>>

C6_Witness ==
    /\ client.state = "ready"
    /\ Provides(ctorArgs.apiKey)
    /\ Provides(env)
    /\ \A c \in Calls : ~Called(c)

\* the endpoint of each public operation
EndpointOf(op) ==
    CASE op \in {"search", "searchAndContents"} -> constants.ENDPOINTS.SEARCH
      [] op \in {"findSimilar", "findSimilarAndContents"} ->
            constants.ENDPOINTS.SIMILAR_SEARCH
      [] op = "getContents" -> constants.ENDPOINTS.CONTENTS

\* C8: a call that passes input validation issues exactly one HTTP request, a
\* POST to its operation's endpoint, whatever becomes of it: in flight,
\* answered with a success or a non-success status, or failed in transport.
C8_OneRequest ==
    \A c \in Calls :
        /\ (Called(c) /\ ~EmptyInput(c))
           => /\ Len(network[c]) = 1
              /\ network[c][1].method = "POST"
              /\ network[c][1].url = client.baseURL \o EndpointOf(calls[c].op)
        /\ Len(network[c]) <= 1

C8_Witness ==
    \E c \in Calls :
        /\ calls[c].op = "findSimilar"
        /\ calls[c].pc = "rejected"
        /\ Responded(c)
        /\ calls[c].response.status = 500
        /\ Len(network[c]) = 1

\* C9: when the response has a success status (and a JSON body) the call
\* resolves to the parsed body, nothing added, removed or rewritten; and a call
\* resolves only then.
C9_VerbatimResult ==
    \A c \in Calls :
        /\ (Settled(c) /\ Responded(c) /\ Ok(calls[c].response.status)
            /\ IsJson(calls[c].response.text))
           => /\ calls[c].pc = "resolved"
              /\ calls[c].result.kind = "value"
              /\ calls[c].result.value = JsonParse(calls[c].response.text)
        /\ calls[c].pc = "resolved"
           => Responded(c) /\ Ok(calls[c].response.status)

C9_Witness ==
    \E c \in Calls :
        /\ calls[c].pc = "resolved"
        /\ calls[c].response.text = AutopromptText
        /\ DOMAIN calls[c].result.value = {"results", "autopromptString"}

\* the body an operation builds from a call's own arguments
OwnBody(op, arg, options) ==
    CASE op = "search" -> searchBody(arg.s, options)
      [] op = "searchAndContents" -> searchAndContentsBody(arg.s, options)
      [] op = "findSimilar" -> findSimilarBody(arg.s, options)
      [] op = "findSimilarAndContents" -> findSimilarAndContentsBody(arg.s, options)
      [] op = "getContents" -> getContentsBody(arg, options)

\* C10: once constructed, the client keeps the base URL and the three headers
\* its construction set; under any interleaving of calls, settled or not,
\* every request carries that base URL and those headers, and its body is
\* built from its own call's arguments.
C10_ClientReadOnly ==
    LET baseURL == IF ctorArgs.baseURL = Undefined THEN constants.BASE_URL
                                                   ELSE ctorArgs.baseURL
        headers == ("x-api-key" :> (IF Provides(ctorArgs.apiKey) THEN ctorArgs.apiKey
                                                                 ELSE env))
                   @@ ("Content-Type" :> constants.CONTENT_TYPE)
                   @@ ("User-Agent" :> constants.USER_AGENT)
    IN /\ client.state = "ready"
          => client.baseURL = baseURL /\ client.headers = headers
       /\ \A c \in Calls : \A i \in DOMAIN network[c] :
             /\ network[c][i].url = baseURL \o EndpointOf(calls[c].op)
             /\ network[c][i].headers = headers
             /\ network[c][i].body =
                   JsonStringify(OwnBody(calls[c].op, calls[c].arg, calls[c].options))

C10_Witness ==
    \E c \in Calls, d \in Calls :
        /\ c # d
        /\ calls[c].pc = "rejected" /\ Sent(c)
        /\ calls[d].pc = "fetch" /\ Sent(d)
        /\ calls[c].op = "search" /\ calls[d].op = "search"
        /\ Body(c) # Body(d)
        /\ ctorArgs.baseURL # Undefined

====
